---- MODULE Spec2Model ----
(***************************************************************************)
(* Model of the synthetic SaaS raw-layer generators:                       *)
(*   "root"   src/synthetic_data_generator.py           (Parquet, Decimal) *)
(*   "load"   src/data_gen/generate_and_load_script.py  (CSV, Decimal)     *)
(*   "legacy" src/data_gen/synthetic_data_generator.py  (Parquet, float)   *)
(*                                                                         *)
(* A table (DataFrame) is its exact row count `len` together with the      *)
(* first MaxRows rows of it (`rows`); every row carries its DataFrame      *)
(* index `idx`.  Generator loops are stepped row by row for the tracked    *)
(* rows, the remaining iterations are summarised when the generator        *)
(* returns.  Times are seconds since 2019-01-01 00:00 (wall values).       *)
(*                                                                         *)
(* Spec  : main run once or twice with a --scale argument.                 *)
(* SpecG : one generator called directly with any count and pools.         *)
(* SpecQ : quantize applied to a value, to its result and its negation.    *)
(***************************************************************************)
EXTENDS Integers, Sequences, FiniteSets, TLC

\* ------------------------------------------------------------------ bounds
MaxRows == 2          \* rows of each table (and of the duplicate set) tracked
StreamMod == 4        \* resolution of one raw value of a pseudo-random stream
PyMod == 2            \* resolution of one raw value of the stdlib stream
MaxCoef == 130        \* largest |coefficient| of a quantize input (SpecQ)
MaxCount == 3         \* largest row count passed to a generator called directly

\* --------------------------------------------------------- small utilities
Min(a, b) == IF a < b THEN a ELSE b
Max(a, b) == IF a > b THEN a ELSE b
Abs(a) == IF a < 0 THEN -a ELSE a
Sign(a) == IF a < 0 THEN -1 ELSE IF a > 0 THEN 1 ELSE 0
RECURSIVE Pow10(_)
Pow10(k) == IF k <= 0 THEN 1 ELSE 10 * Pow10(k - 1)
Range(s) == {s[k] : k \in 1..Len(s)}

Variants == {"root", "load", "legacy"}
Entities == <<"orgs", "users", "products", "orders", "payments", "events">>
EntitySet == Range(Entities)

\* ------------------------------------------------------------ time constants
Hour == 3600
Day == 86400
Date2019 == 0                    \* datetime(2019, 1, 1)
Date2022 == 1096 * Day           \* datetime(2022, 1, 1)
Date2023 == 1461 * Day           \* datetime(2023, 1, 1)
ClockStart == 2500 * Day         \* UTC reading of the wall clock at process start
TzOffsets == {0 - 5 * Hour, 0}    \* local time minus UTC of the host
ClockSteps == {0, 1}             \* advance of the wall clock between two reads
RunGaps == {Day}                 \* wall-clock time between two runs

\* ------------------------------------------------------------------ presets
SCALE_PRESETS ==
  [root |->
     [xs |-> [users |-> 100, orgs |-> 20, products |-> 10,
              orders |-> 500, payments |-> 200, events |-> 1000],
      s  |-> [users |-> 10000, orgs |-> 1000, products |-> 500,
              orders |-> 100000, payments |-> 40000, events |-> 300000],
      m  |-> [users |-> 50000, orgs |-> 5000, products |-> 1000,
              orders |-> 1000000, payments |-> 400000, events |-> 3000000],
      l  |-> [users |-> 250000, orgs |-> 25000, products |-> 2000,
              orders |-> 5000000, payments |-> 2000000, events |-> 15000000]],
   load |->
     [xs |-> [users |-> 100, orgs |-> 20, products |-> 10,
              orders |-> 500, payments |-> 200, events |-> 1000],
      s  |-> [users |-> 10000, orgs |-> 1000, products |-> 500,
              orders |-> 100000, payments |-> 40000, events |-> 300000]],
   legacy |->
     [s  |-> [users |-> 10000, orgs |-> 1000, products |-> 500,
              orders |-> 100000, payments |-> 40000, events |-> 300000],
      m  |-> [users |-> 50000, orgs |-> 5000, products |-> 1000,
              orders |-> 1000000, payments |-> 400000, events |-> 3000000],
      l  |-> [users |-> 250000, orgs |-> 25000, products |-> 2000,
              orders |-> 5000000, payments |-> 2000000, events |-> 15000000]]]

BATCH_SIZE == 100000

\* ---------------------------------------------------------------- decimals
\* A number is c * 10^e (+ an infinitesimal of sign eps, the residue of a
\* binary float that is not a decimal fraction); ty is its Python type.
Num(c, e, eps, ty) == [c |-> c, e |-> e, eps |-> eps, ty |-> ty]
Dec(c, e) == Num(c, e, 0, "Decimal")
Flt(c, e) == Num(c, e, 0, "float")
\* the value in units of 10^-k, for k >= -e
Units(d, k) == d.c * Pow10(k + d.e)
NumLe(a, b) ==
  LET k == Max(0 - a.e, 0 - b.e)
      ua == Units(a, k)
      ub == Units(b, k)
  IN  ua < ub \/ (ua = ub /\ a.eps <= b.eps)
NumEq(a, b) ==
  LET k == Max(0 - a.e, 0 - b.e)
  IN  Units(a, k) = Units(b, k) /\ a.eps = b.eps
Neg(d) == [d EXCEPT !.c = 0 - d.c, !.eps = 0 - d.eps]
\* Decimal * Decimal and Decimal * int (exact; an infinitesimal on both
\* sides does not occur)
Mul(a, b) ==
  Num(a.c * b.c, a.e + b.e, a.eps * Sign(b.c) + b.eps * Sign(a.c),
      IF a.ty = "float" \/ b.ty = "float" THEN "float" ELSE "Decimal")
MulInt(a, n) == Num(a.c * n, a.e, a.eps * Sign(n), a.ty)

\* Decimal(val).quantize(Decimal("0.01"), rounding=ROUND_HALF_UP)
quantize_wrong_HALF_EVEN(val) ==
  IF val.e >= 0 - 2 THEN Dec(val.c * Pow10(val.e + 2), 0 - 2)
  ELSE LET p == Pow10(0 - 2 - val.e)
           q == Abs(val.c) \div p
           r == Abs(val.c) % p
           up == \/ 2 * r > p
                 \/ (2 * r = p /\ val.eps * Sign(val.c) > 0)
                 \/ (2 * r = p /\ val.eps = 0 /\ q % 2 = 1)
       IN  Dec(Sign(val.c) * (IF up THEN q + 1 ELSE q), 0 - 2)
quantize_drops_sign(val) ==
  IF val.e >= 0 - 2 THEN Dec(Abs(val.c) * Pow10(val.e + 2), 0 - 2)
  ELSE LET p == Pow10(0 - 2 - val.e)
           q == Abs(val.c) \div p
           r == Abs(val.c) % p
           up == \/ 2 * r > p
                 \/ (2 * r = p /\ val.eps * Sign(val.c) >= 0)
       IN  Dec(IF up THEN q + 1 ELSE q, 0 - 2)
quantize(val) ==
  IF val.e >= 0 - 2 THEN Dec(val.c * Pow10(val.e + 2), 0 - 2)
  ELSE LET p == Pow10(0 - 2 - val.e)
           q == Abs(val.c) \div p
           r == Abs(val.c) % p
           up == \/ 2 * r > p
                 \/ (2 * r = p /\ val.eps * Sign(val.c) >= 0)
       IN  Dec(Sign(val.c) * (IF up THEN q + 1 ELSE q), 0 - 2)

\* Python round(x, 2) of a float: nearest, ties to even
round2(x) ==
  IF x.e >= 0 - 2 THEN Flt(x.c * Pow10(x.e + 2), 0 - 2)
  ELSE LET p == Pow10(0 - 2 - x.e)
           q == Abs(x.c) \div p
           r == Abs(x.c) % p
           up == \/ 2 * r > p
                 \/ (2 * r = p /\ x.eps * Sign(x.c) > 0)
                 \/ (2 * r = p /\ x.eps = 0 /\ q % 2 = 1)
       IN  Flt(Sign(x.c) * (IF up THEN q + 1 ELSE q), 0 - 2)

\* Python round(frac * n) of pandas' sample(frac=0.005): ties to even
DupFracNum == 5
DupFracDen == 1000
SampleSize(n) ==
  LET q == (DupFracNum * n) \div DupFracDen
      r == (DupFracNum * n) % DupFracDen
  IN  IF 2 * r > DupFracDen \/ (2 * r = DupFracDen /\ q % 2 = 1)
      THEN q + 1 ELSE q

\* ------------------------------------------------------------------- state
VARIABLES
  variant,      \* which generator script runs
  scale,        \* --scale argument
  counts,       \* SCALE_PRESETS[args.scale], or <<>> before main reads it
  stage,        \* "start", the entity main is working on, or "done"
  phase,        \* "call" | "loop" | "write" position inside that entity
  rows,         \* the running generator's local list `rows` (tracked rows)
  base_date,    \* the running generator's local base_date
  sample,       \* generate_payments' orders_sample (tracked rows)
  df,           \* the DataFrames main holds: entity -> [len, rows]
  files,        \* entities whose output file this run has written (from df)
  started,      \* order in which main has invoked the generators
  npA, npB,     \* what np.random.seed(42) fixes: the numpy stream
  npPos,        \* draws consumed from the numpy global stream
  fkPos,        \* draws consumed from Faker's seeded stream
  pySeed,       \* OS-entropy seed of the stdlib `random` module (per process)
  pyPos,        \* draws consumed from the stdlib stream
  clock,        \* UTC wall clock
  clockStep,    \* its advance between two reads
  tz,           \* local-time offset of the host
  outdir,       \* whether the output directory exists
  run,          \* 1 or 2: first or second run of the script
  out1,         \* the tables run 1 generated and wrote
  qx, qres, qstep,  \* SpecQ: a quantize input, its result, applications done
  qagain,       \* SpecQ: quantize applied to the result and to its negation
  clean         \* what the same run yields with every anomaly probability 0

vars == <<variant, scale, counts, stage, phase, rows, base_date, sample, df,
          files, outdir, started, npA, npB, npPos, fkPos, pySeed, pyPos,
          clock, clockStep, tz, run, out1, qx, qres, qstep, qagain, clean>>

\* ------------------------------------------------------- pseudo-random draws
\* np.random.seed(42): the p-th raw value of the numpy stream
NpRaw(p) == (npA * p + npB) % StreamMod
\* stdlib random, never seeded by the scripts
PyRaw(p) == (pySeed + p) % PyMod
\* Faker.seed(42): the value Faker derives from its p-th draw
FAKER_SEED == 42
FkVal(p) == FAKER_SEED * 1000 + p

\* np.random.randint(lo, hi): lo <= result < hi
Randint(r, lo, hi) == lo + (r * (hi - lo)) \div StreamMod
\* random.randint(lo, hi): lo <= result <= hi
PyRandint(r, lo, hi) == lo + (r * (hi - lo + 1)) \div PyMod
\* np.random.choice(seq)
Choice(r, seq) == seq[1 + (r * Len(seq)) \div StreamMod]
\* np.random.choice(ids) over an upstream id column: a foreign key
ForeignKey_or_null(r, ids) == IF r = 0 THEN 0 ELSE Choice(r, ids)
ForeignKey(r, ids) == Choice(r, ids)
\* np.random.rand() < num/den   and   np.random.rand() > num/den
RandLt(r, num, den) == r * den < num * StreamMod
RandGt(r, num, den) == r * den > num * StreamMod
\* np.random.uniform(lo, hi), a float
Uniform(r, lo, hi) == Flt(lo * 10000 + (r * (hi - lo) * 10000) \div StreamMod, 0 - 4)
\* int(np.random.exponential(1.5)): thousandths of 1 - exp(-k/1.5), k = 1..5
ExpCdf == <<487, 736, 865, 931, 964>>
ExponentialInt(r) ==
  Cardinality({k \in 1..Len(ExpCdf) : r * 1000 >= ExpCdf[k] * StreamMod})

\* ------------------------------------------------------------------- clocks
\* k-th read (k = 0, 1, ...) of the wall clock inside one step
UtcNow(k) == clock + k * clockStep          \* datetime.utcnow()
Now(k) == clock + k * clockStep + tz        \* datetime.now(): local time

\* a timestamp value: wall reading and whether it is timezone-qualified
Ts(t) == [t |-> t, tz |-> "naive"]
TsAdd(ts, secs) == [ts EXCEPT !.t = ts.t + secs]
\* pd.to_datetime(x, utc=True): a naive value is taken to be UTC as it stands
ToUtc(ts) == [ts EXCEPT !.tz = "UTC"]
coerce_datetime(table, cols) ==
  [k \in 1..Len(table) |->
     [f \in DOMAIN table[k] |->
        IF f \in cols THEN ToUtc(table[k][f]) ELSE table[k][f]]]

\* _recent_date(days_back) of the root script, first clock read numbered k
\* result: the datetime and the number of clock reads made
_recent_date(r, days_back, k) ==
  LET days == PyRandint(r, 0, days_back)
      dt == UtcNow(k) - days * Day
  IN  IF dt > UtcNow(k + 1)
      THEN [dt |-> UtcNow(k + 2), reads |-> 3]
      ELSE [dt |-> dt, reads |-> 2]

\* _random_date(start, end) of the legacy script
_random_date(r, start, end) == start + Randint(r, 0, end - start)

\* ------------------------------------------------------------ row builders
\* Each builder is one iteration of a generator's loop.  It yields the row
\* and the number of values it consumed from each stream and of clock reads.
Built(row, np, fk, py, reads) ==
  [row |-> row, np |-> np, fk |-> fk, py |-> py, reads |-> reads]

\* the column `col` of a DataFrame, as main passes it to a generator
Column(table, col) == [k \in 1..Len(table.rows) |-> table.rows[k][col]]

PLANS == <<"basic", "pro", "enterprise">>
CATEGORIES == <<"apparel", "electronics", "books", "food">>
CURRENCIES == <<"USD", "GBP", "EUR">>
ORDER_STATUS == <<"placed", "paid", "refunded", "partial_refund", "cancelled">>
PAYMENT_STATUS == <<"paid", "failed", "refunded">>

\* generate_orgs: one row
OrgRow(v, idx) ==
  LET plan == Choice(NpRaw(npPos), PLANS)
      rd == _recent_date(PyRaw(pyPos), 365, 0)
      created ==
        CASE v = "root" -> rd.dt
          [] v = "load" ->
               base_date + Randint(NpRaw(npPos + 1), 0, 90 * Day)
          [] OTHER -> _random_date(NpRaw(npPos + 1), Date2022, Now(0))
      reads == CASE v = "root" -> rd.reads [] v = "load" -> 0 [] OTHER -> 1
  IN  Built([idx |-> idx, org_id |-> FkVal(fkPos), org_name |-> FkVal(fkPos + 1),
             plan_id |-> plan, created_at |-> Ts(created),
             updated_at |-> Ts(Now(reads))],
            IF v = "root" THEN 1 ELSE 2, 4, IF v = "root" THEN 1 ELSE 0,
            reads + 1)

\* generate_users: one row (org_ids is the org_id column of df_orgs)
UserRow(v, idx, org_ids) ==
  LET org == ForeignKey(NpRaw(npPos), org_ids)
      hasEmail == RandGt(NpRaw(npPos + 1), 2, 100)
      nEmail == IF hasEmail THEN 1 ELSE 0
      rd == _recent_date(PyRaw(pyPos), 180, 0)
      created ==
        CASE v = "root" -> rd.dt
          [] v = "load" ->
               base_date + Randint(NpRaw(npPos + 2), 0, 60 * Day)
          [] OTHER -> _random_date(NpRaw(npPos + 2), Date2023, Now(0))
      reads == CASE v = "root" -> rd.reads [] v = "load" -> 0 [] OTHER -> 1
  IN  Built([idx |-> idx, user_id |-> FkVal(fkPos), org_id |-> org,
             email |-> IF hasEmail THEN FkVal(fkPos + 1) ELSE 0,
             full_name |-> FkVal(fkPos + 1 + nEmail),
             created_at |-> Ts(created), updated_at |-> Ts(Now(reads))],
            IF v = "root" THEN 2 ELSE 3, 4 + nEmail,
            IF v = "root" THEN 1 ELSE 0, reads + 1)

\* generate_products: one row
ProductRow(v, idx) ==
  LET cat == Choice(NpRaw(npPos), CATEGORIES)
      rd == _recent_date(PyRaw(pyPos), 730, 0)
      launched ==
        CASE v = "root" -> rd.dt
          [] v = "load" ->
               base_date + Randint(NpRaw(npPos + 1), 0, 365 * Day)
          [] OTHER -> _random_date(NpRaw(npPos + 1), Date2019, Now(0))
      reads == CASE v = "root" -> rd.reads [] v = "load" -> 0 [] OTHER -> 1
  IN  Built([idx |-> idx, product_id |-> FkVal(fkPos), category |-> cat,
             launched_at |-> Ts(launched), updated_at |-> Ts(Now(reads))],
            IF v = "root" THEN 1 ELSE 2, 4, IF v = "root" THEN 1 ELSE 0,
            reads + 1)

\* generate_orders: one row
OrderRow_trials_elif(v, idx, org_ids, user_ids, product_ids) ==
  LET qty0 == Max(0, ExponentialInt(NpRaw(npPos)))
      u == Uniform(NpRaw(npPos + 1), 5, 500)
      price0 == IF v = "legacy" THEN round2(u) ELSE quantize(u)
      neg == RandLt(NpRaw(npPos + 2), 2, 1000)
      price == IF neg THEN Neg(price0) ELSE price0
      k == IF neg THEN 0 ELSE 1
      qty == IF ~neg /\ RandLt(NpRaw(npPos + 3), 5, 1000) THEN 0 ELSE qty0
      order_ts == Ts(base_date + Randint(NpRaw(npPos + 3 + k), 0, 90) * Day)
  IN  Built([idx |-> idx, order_id |-> FkVal(fkPos),
             org_id |-> ForeignKey(NpRaw(npPos + 4 + k), org_ids),
             user_id |-> ForeignKey(NpRaw(npPos + 5 + k), user_ids),
             product_id |-> ForeignKey(NpRaw(npPos + 6 + k), product_ids),
             quantity |-> qty, unit_price |-> price,
             currency |-> Choice(NpRaw(npPos + 7 + k), CURRENCIES),
             status |-> Choice(NpRaw(npPos + 8 + k), ORDER_STATUS),
             order_ts |-> order_ts,
             updated_at |->
               TsAdd(order_ts, Randint(NpRaw(npPos + 9 + k), 1, 48) * Hour)],
            10 + k, 1, 0, 0)
OrderRow(v, idx, org_ids, user_ids, product_ids) ==
  LET qty0 == Max(0, ExponentialInt(NpRaw(npPos)))
      u == Uniform(NpRaw(npPos + 1), 5, 500)
      price0 == IF v = "legacy" THEN round2(u) ELSE quantize(u)
      price == IF RandLt(NpRaw(npPos + 2), 2, 1000) THEN Neg(price0) ELSE price0
      qty == IF RandLt(NpRaw(npPos + 3), 5, 1000) THEN 0 ELSE qty0
      order_ts == Ts(base_date + Randint(NpRaw(npPos + 4), 0, 90) * Day)
  IN  Built([idx |-> idx, order_id |-> FkVal(fkPos),
             org_id |-> ForeignKey(NpRaw(npPos + 5), org_ids),
             user_id |-> ForeignKey(NpRaw(npPos + 6), user_ids),
             product_id |-> ForeignKey(NpRaw(npPos + 7), product_ids),
             quantity |-> qty, unit_price |-> price,
             currency |-> Choice(NpRaw(npPos + 8), CURRENCIES),
             status |-> Choice(NpRaw(npPos + 9), ORDER_STATUS),
             order_ts |-> order_ts,
             updated_at |->
               TsAdd(order_ts, Randint(NpRaw(npPos + 10), 1, 48) * Hour)],
            11, 1, 0, 0)

\* the list np.random.choice draws the refund factor from
REFUND_FACTORS(v) ==
  CASE v = "root" -> <<Dec(0, 0), Dec(0, 0), Dec(10, 0 - 2), Dec(25, 0 - 2)>>
    [] v = "load" -> <<Dec(0, 0), Dec(0, 0),
                       Num(1, 0 - 1, 1, "Decimal"), Dec(25, 0 - 2)>>
    [] OTHER -> <<Flt(0, 0), Flt(0, 0), Flt(0, 0),
                  Num(1, 0 - 1, 1, "float"), Flt(25, 0 - 2)>>

\* amount of a payment for the sampled order
Amount_without_floor(v, order) ==
  IF v = "legacy"
  THEN LET x == MulInt(order.unit_price, order.quantity)
       IN  IF NumLe(x, Num(1, 0, 0, "int")) THEN Num(1, 0, 0, "int") ELSE x
  ELSE quantize(MulInt(order.unit_price, order.quantity))
Amount(v, order) ==
  IF v = "legacy"
  THEN LET x == MulInt(order.unit_price, order.quantity)
       IN  IF NumLe(x, Num(1, 0, 0, "int")) THEN Num(1, 0, 0, "int") ELSE x
  ELSE quantize(MulInt(order.unit_price, Max(order.quantity, 1)))

\* seconds generate_payments adds to order_ts to obtain paid_ts
PaidOffset_centred(v, r) ==
  IF v = "load" THEN Randint(r, 0 - 43200, 43200)
  ELSE Randint(r, 0 - 12, 12) * Hour
PaidOffset(v, r) ==
  IF v = "load" THEN Randint(r, 0, 86400) ELSE Randint(r, 0, 24) * Hour

\* generate_payments: one row, for the sampled order
PaymentRow(v, idx, order) ==
  LET amount == Amount(v, order)
      refund_factor == Choice(NpRaw(npPos), REFUND_FACTORS(v))
      refund_amount == IF v = "legacy" THEN Mul(amount, refund_factor)
                       ELSE quantize(Mul(amount, refund_factor))
      offset == PaidOffset(v, NpRaw(npPos + 1))
      fee == IF v = "legacy"
             THEN round2(Mul(amount, Num(3, 0 - 2, 0 - 1, "float")))
             ELSE quantize(Mul(amount, Dec(3, 0 - 2)))
      tax == IF v = "legacy"
             THEN round2(Mul(amount, Num(2, 0 - 1, 1, "float")))
             ELSE quantize(Mul(amount, Dec(20, 0 - 2)))
  IN  Built([idx |-> idx, charge_id |-> FkVal(fkPos),
             order_id |-> order.order_id, org_id |-> order.org_id,
             amount |-> amount, currency |-> order.currency,
             paid_ts |-> TsAdd(order.order_ts, offset),
             status |-> Choice(NpRaw(npPos + 2), PAYMENT_STATUS),
             fee_amount |-> fee, tax_amount |-> tax,
             refund_amount |-> refund_amount],
            3, 2, 0, 0)

\* generate_events: one row
EventRow(v, idx, org_ids, user_ids) ==
  LET window == IF v = "legacy" THEN 90 ELSE 30
      event_ts == Ts(base_date + Randint(NpRaw(npPos), 0, window * 24 * 3600))
      u == Uniform(NpRaw(npPos + 1), 0, 300)
      cart == IF v = "legacy" THEN round2(u)
              ELSE [quantize(u) EXCEPT !.ty = "float"]
      drift == RandLt(NpRaw(npPos + 2), 5, 100)
      nDrift == IF drift THEN 1 ELSE 0
      leak == RandLt(NpRaw(npPos + 3), 2, 100)
      nLeak == IF leak THEN 1 ELSE 0
  IN  Built([idx |-> idx,
             event_id |-> FkVal(fkPos + 1 + nDrift + nLeak),
             event_ts |-> event_ts,
             received_ts |-> TsAdd(event_ts, Randint(NpRaw(npPos + 4), 0, 10)),
             user_id |-> ForeignKey(NpRaw(npPos + 5), user_ids),
             org_id |-> ForeignKey(NpRaw(npPos + 6), org_ids),
             properties |->
               [page |-> FkVal(fkPos), cart_value |-> cart,
                new_key |-> IF drift THEN FkVal(fkPos + 1) ELSE 0,
                leaked_email |->
                  IF leak THEN FkVal(fkPos + 1 + nDrift) ELSE 0]],
            9, 3 + nDrift + nLeak, 0, 0)

\* ------------------------------------------------------------------ driver
NoTable == [len |-> 0 - 1, rows |-> <<>>]      \* a DataFrame not yet assigned
NoTables == [e \in EntitySet |-> NoTable]
NoCounts == [e \in EntitySet |-> 0]

\* the order of main's generator calls
Next_stage_payments_last(e) ==
  CASE e = "orgs" -> "users" [] e = "users" -> "products"
    [] e = "products" -> "orders" [] e = "orders" -> "events"
    [] e = "events" -> "payments" [] OTHER -> "done"
Next_stage(e) ==
  CASE e = "orgs" -> "users" [] e = "users" -> "products"
    [] e = "products" -> "orders" [] e = "orders" -> "payments"
    [] e = "payments" -> "events" [] OTHER -> "done"

\* days base_date lies before now() in generator e (0 - 1: no base_date)
BaseDays(v, e) ==
  CASE v = "load" /\ e \in {"orgs", "users", "products"} -> 60
    [] v = "load" /\ e = "orders" -> 59
    [] v # "load" /\ e = "orders" -> 90
    [] v = "legacy" /\ e = "events" -> 90
    [] v # "legacy" /\ e = "events" -> 30
    [] OTHER -> 0 - 1

\* columns each generator hands to coerce_datetime ({} : it does not)
DatetimeCols(v, e) ==
  IF v = "legacy" THEN {}
  ELSE CASE e \in {"orgs", "users"} -> {"created_at", "updated_at"}
         [] e = "products" -> {"launched_at", "updated_at"}
         [] e = "orders" -> {"order_ts", "updated_at"}
         [] e = "payments" -> {"paid_ts"}
         [] OTHER -> {"event_ts", "received_ts"}

\* iterations of generator e's loop: range(n), or the rows of orders_sample
PaymentSampleSize_all_orders(n, order_df) == order_df.len
PaymentSampleSize_uncapped(n, order_df) == n
PaymentSampleSize(n, order_df) == Min(n, order_df.len)
LoopCount(e) ==
  IF e = "payments" THEN PaymentSampleSize(counts[e], df["orders"])
  ELSE Max(0, counts[e])
Tracked(n) == Min(n, MaxRows)

\* order_df.sample(n=..., replace=True): the tracked rows of orders_sample
OrdersSample(order_df, size) ==
  [j \in 1..Tracked(size) |-> Choice(NpRaw(npPos + j - 1), order_df.rows)]

\* pd.DataFrame(rows).sample(frac=0.005, random_state=42), reindexed by
\* pd.concat(..., ignore_index=True) behind the n original rows; the fixed
\* random_state makes the picked rows a fixed function of the frame
RANDOM_STATE == 42
SamplePick(j, size) == ((RANDOM_STATE + j) % size) + 1
Dupes_resampled_fresh(rws, n) ==
  [j \in 1..Min(SampleSize(n), Len(rws)) |->
     [rws[SamplePick(j, Len(rws))]
        EXCEPT !.idx = n + j - 1, !.user_id = FkVal(fkPos + j)]]
Dupes(rws, n) ==
  [j \in 1..Min(SampleSize(n), Len(rws)) |->
     [rws[SamplePick(j, Len(rws))] EXCEPT !.idx = n + j - 1]]

\* the DataFrame generator e returns for its list `rows` of n rows
Returned(v, e, rws, n) ==
  LET all == IF e = "users" /\ v # "load" THEN rws \o Dupes(rws, n) ELSE rws
      len == IF e = "users" /\ v # "load" THEN n + SampleSize(n) ELSE n
  IN  [len |-> len, rows |-> coerce_datetime(all, DatetimeCols(v, e))]

\* the tables whose columns (or rows) main passes to generator e
Upstream(e) ==
  CASE e = "users" -> {"orgs"}
    [] e = "orders" -> {"orgs", "users", "products"}
    [] e = "payments" -> {"orders"}
    [] e = "events" -> {"orgs", "users"}
    [] OTHER -> {}

\* np.random.choice(ids) raises ValueError when ids is empty
ChoiceOfEmpty(e) ==
  /\ e \in {"users", "orders", "events"}
  /\ \E u \in Upstream(e) : Len(df[u].rows) = 0
\* order_df.sample(n=...) raises ValueError when n is negative, and when
\* rows are requested of a frame that has none
SampleOfNegative(e) ==
  /\ e = "payments"
  /\ LET size == PaymentSampleSize(counts[e], df["orders"])
     IN  size < 0 \/ (size > 0 /\ df["orders"].len = 0)
\* coerce_datetime(pd.DataFrame([]), cols): the frame of an empty list has no
\* columns, df[c] raises KeyError
CoerceKeyError(v, e, rws) == rws = <<>> /\ DatetimeCols(v, e) # {}

\* values of --scale a user may pass, and those argparse accepts (choices=)
Scales == {"xs", "s", "m", "l", "xl"}
ScaleChoices(v) ==
  CASE v = "root" -> {"xs", "s", "m", "l"}
    [] v = "load" -> DOMAIN SCALE_PRESETS[v]
    [] OTHER -> {"s", "m", "l"}

\* parser.parse_args() rejects a --scale outside choices: usage error, exit 2
UsageError_after_mkdir ==
  /\ stage = "start"
  /\ scale \notin ScaleChoices(variant)
  /\ stage' = "usage"
  /\ outdir' = TRUE
  /\ UNCHANGED <<variant, scale, counts, phase, rows, base_date, sample, df,
                 files, started, npA, npB, npPos, fkPos, pySeed, pyPos, clock,
                 clockStep, tz, run, out1, qx, qres, qstep, qagain, clean>>
UsageError ==
  /\ stage = "start"
  /\ scale \notin ScaleChoices(variant)
  /\ stage' = "usage"
  /\ UNCHANGED <<variant, scale, counts, phase, rows, base_date, sample, df,
                 files, outdir, started, npA, npB, npPos, fkPos, pySeed, pyPos,
                 clock, clockStep, tz, run, out1, qx, qres, qstep, qagain,
                 clean>>

\* main: parse the arguments, read the preset, create the output directory
MainStart ==
  /\ stage = "start"
  /\ scale \in ScaleChoices(variant)
  /\ counts' = SCALE_PRESETS[variant][scale]
  /\ outdir' = TRUE
  /\ stage' = "orgs"
  /\ phase' = "call"
  /\ UNCHANGED <<variant, scale, rows, base_date, sample, df, files, started,
                 npA, npB, npPos, fkPos, pySeed, pyPos, clock,
                 clockStep, tz, run, out1, qx, qres, qstep, qagain, clean>>

\* main calls generator e: the statements before its loop
Call(e) ==
  /\ stage = e
  /\ phase = "call"
  /\ ~SampleOfNegative(e)
  /\ started' = Append(started, e)
  /\ rows' = <<>>
  /\ clean' = [clean EXCEPT !.rows = <<>>]
  /\ IF BaseDays(variant, e) >= 0
     THEN /\ base_date' = Now(0) - BaseDays(variant, e) * Day
          /\ clock' = clock + clockStep
     ELSE /\ base_date' = 0
          /\ clock' = clock
  /\ IF e = "payments"
     THEN LET size == PaymentSampleSize(counts[e], df["orders"])
          IN  /\ sample' = OrdersSample(df["orders"], size)
              /\ npPos' = npPos + Tracked(size)
     ELSE /\ sample' = <<>>
          /\ npPos' = npPos
  /\ phase' = "loop"
  /\ UNCHANGED <<variant, scale, counts, stage, df, files, outdir, npA, npB,
                 fkPos, pySeed, pyPos, clockStep, tz, run, out1,
                 qx, qres, qstep, qagain>>

\* ---- the same run with every anomaly probability 0 (0.02, 0.002, 0.005,
\* 0.05 and 0.02 in the conditions replaced by 0): no anomaly fires.  Its
\* numpy, stdlib and clock reads are those of the actual run (every
\* np.random.rand() is drawn unconditionally); its Faker calls are not.
\* clean.fk: Faker calls it has made; clean.rows: its tracked rows of the
\* running generator; clean.ids: the id columns of its returned tables.
NoClean == [fk |-> 0, rows |-> <<>>, ids |-> [e \in EntitySet |-> <<>>]]
IdCol(e) ==
  CASE e = "orgs" -> "org_id" [] e = "users" -> "user_id"
    [] e = "products" -> "product_id" [] e = "orders" -> "order_id"
    [] e = "payments" -> "charge_id" [] OTHER -> "event_id"
\* Faker calls one row of generator e makes when no anomaly fires
CleanFkDraws(e) ==
  CASE e = "orgs" -> 4 [] e = "users" -> 5 [] e = "products" -> 4
    [] e = "orders" -> 1 [] e = "payments" -> 2 [] OTHER -> 3
\* the id np.random.choice picks at the same index of the anomaly-free pool
\* (a value that is no id of the pool is the same in both runs)
CleanId(u, val) ==
  LET pool == Column(df[u], IdCol(u))
      at == {j \in 1..Len(pool) : pool[j] = val}
  IN  IF at = {} THEN val ELSE clean.ids[u][CHOOSE j \in at : TRUE]
\* the row the anomaly-free run builds where the actual run builds `row`
\* (a payment's amounts follow the sampled order's price and quantity and are
\* left as they are)
CleanRow(e, row) ==
  LET c == clean.fk
  IN  CASE e = "orgs" ->
             [row EXCEPT !.org_id = FkVal(c), !.org_name = FkVal(c + 1)]
        [] e = "users" ->
             [row EXCEPT !.user_id = FkVal(c),
                         !.org_id = CleanId("orgs", row.org_id),
                         !.email = FkVal(c + 1), !.full_name = FkVal(c + 2)]
        [] e = "products" -> [row EXCEPT !.product_id = FkVal(c)]
        [] e = "orders" ->
             [row EXCEPT !.order_id = FkVal(c),
                         !.org_id = CleanId("orgs", row.org_id),
                         !.user_id = CleanId("users", row.user_id),
                         !.product_id = CleanId("products", row.product_id),
                         !.unit_price =
                           IF row.unit_price.c < 0 THEN Neg(row.unit_price)
                           ELSE row.unit_price,
                         !.quantity = Max(0, ExponentialInt(NpRaw(npPos)))]
        [] e = "payments" ->
             [row EXCEPT !.charge_id = FkVal(c),
                         !.order_id = CleanId("orders", row.order_id)]
        [] OTHER ->
             [row EXCEPT !.event_id = FkVal(c + 1),
                         !.user_id = CleanId("users", row.user_id),
                         !.org_id = CleanId("orgs", row.org_id),
                         !.properties =
                           [@ EXCEPT !.page = FkVal(c), !.new_key = 0,
                                     !.leaked_email = 0]]

\* one iteration of the running generator's loop
Consume(b) ==
  /\ rows' = Append(rows, b.row)
  /\ clean' = [clean EXCEPT !.fk = @ + CleanFkDraws(stage),
                            !.rows = Append(@, CleanRow(stage, b.row))]
  /\ npPos' = npPos + b.np
  /\ fkPos' = fkPos + b.fk
  /\ pyPos' = pyPos + b.py
  /\ clock' = clock + b.reads * clockStep
  /\ UNCHANGED <<variant, scale, counts, stage, phase, base_date, sample, df,
                 files, outdir, started, npA, npB, pySeed, clockStep,
                 tz, run, out1, qx, qres, qstep, qagain>>

InLoop(e) ==
  /\ stage = e
  /\ phase = "loop"
  /\ Len(rows) < Tracked(LoopCount(e))
  /\ ~ChoiceOfEmpty(e)

generate_orgs == InLoop("orgs") /\ Consume(OrgRow(variant, Len(rows)))

generate_users ==
  /\ InLoop("users")
  /\ Consume(UserRow(variant, Len(rows), Column(df["orgs"], "org_id")))

generate_products ==
  InLoop("products") /\ Consume(ProductRow(variant, Len(rows)))

generate_orders ==
  /\ InLoop("orders")
  /\ Consume(OrderRow(variant, Len(rows), Column(df["orgs"], "org_id"),
                      Column(df["users"], "user_id"),
                      Column(df["products"], "product_id")))

generate_payments ==
  /\ InLoop("payments")
  /\ Consume(PaymentRow(variant, Len(rows), sample[Len(rows) + 1]))

generate_events ==
  /\ InLoop("events")
  /\ Consume(EventRow(variant, Len(rows), Column(df["orgs"], "org_id"),
                      Column(df["users"], "user_id")))

\* the loop of generator e is over: build the DataFrame and return it
Return_reorders_order_df(e) ==
  /\ stage = e
  /\ phase = "loop"
  /\ Len(rows) = Tracked(LoopCount(e))
  /\ ~CoerceKeyError(variant, e, rows)
  /\ df' = IF e = "payments"
           THEN [df EXCEPT
                   ![e] = Returned(variant, e, rows, LoopCount(e)),
                   !["orders"].rows =
                     [k \in 1..Len(@) |-> @[Len(@) + 1 - k]]]
           ELSE [df EXCEPT ![e] = Returned(variant, e, rows, LoopCount(e))]
  /\ clean' = [clean EXCEPT !.ids[e] =
       Column(Returned(variant, e, clean.rows, LoopCount(e)), IdCol(e))]
  /\ phase' = "write"
  /\ UNCHANGED <<variant, scale, counts, stage, rows, base_date, sample, files,
                 outdir, started, npA, npB, npPos, fkPos, pySeed,
                 pyPos, clock, clockStep, tz, run, out1, qx, qres, qstep,
                 qagain>>
Return(e) ==
  /\ stage = e
  /\ phase = "loop"
  /\ Len(rows) = Tracked(LoopCount(e))
  /\ ~CoerceKeyError(variant, e, rows)
  /\ df' = [df EXCEPT ![e] = Returned(variant, e, rows, LoopCount(e))]
  /\ clean' = [clean EXCEPT !.ids[e] =
       Column(Returned(variant, e, clean.rows, LoopCount(e)), IdCol(e))]
  /\ phase' = "write"
  /\ UNCHANGED <<variant, scale, counts, stage, rows, base_date, sample, files,
                 outdir, started, npA, npB, npPos, fkPos, pySeed,
                 pyPos, clock, clockStep, tz, run, out1, qx, qres, qstep,
                 qagain>>

\* an exception raised while generator e runs: neither the generator nor main
\* handles it, the process ends with the rows built so far lost
Raise_flushes_partial(e) ==
  /\ stage = e
  /\ phase = "loop"
  /\ stage' = "failed"
  /\ files' = files \cup {e}
  /\ UNCHANGED <<variant, scale, counts, phase, rows, base_date, sample, df,
                 outdir, started, npA, npB, npPos, fkPos, pySeed, pyPos,
                 clock, clockStep, tz, run, out1, qx, qres, qstep, qagain,
                 clean>>
Raise(e) ==
  /\ stage = e
  /\ phase = "loop"
  /\ stage' = "failed"
  /\ UNCHANGED <<variant, scale, counts, phase, rows, base_date, sample, df,
                 files, outdir, started, npA, npB, npPos, fkPos, pySeed, pyPos,
                 clock, clockStep, tz, run, out1, qx, qres, qstep, qagain,
                 clean>>

\* main writes the returned DataFrame and moves on
Write(e) ==
  /\ stage = e
  /\ phase = "write"
  /\ files' = files \cup {e}
  /\ stage' = Next_stage(e)
  /\ phase' = IF Next_stage(e) = "done" THEN "-" ELSE "call"
  /\ UNCHANGED <<variant, scale, counts, rows, base_date, sample, df, outdir,
                 started, npA, npB, npPos, fkPos, pySeed, pyPos,
                 clock, clockStep, tz, run, out1, qx, qres, qstep, qagain,
                 clean>>

\* the script is run a second time, with the same arguments, on the same host
PySeeds(v) == IF v = "root" THEN 0..(PyMod - 1) ELSE {0}
Rerun ==
  /\ stage = "done"
  /\ run = 1
  /\ run' = 2
  /\ out1' = df
  /\ clean' = NoClean
  /\ files' = {}
  /\ stage' = "start"
  /\ phase' = "-"
  /\ counts' = NoCounts
  /\ rows' = <<>>
  /\ base_date' = 0
  /\ sample' = <<>>
  /\ df' = NoTables
  /\ started' = <<>>
  /\ npPos' = 0
  /\ fkPos' = 0
  /\ pyPos' = 0
  /\ pySeed' \in PySeeds(variant)
  /\ \E gap \in RunGaps : clock' = clock + gap
  /\ UNCHANGED <<variant, scale, outdir, npA, npB, clockStep, tz,
                 qx, qres, qstep, qagain>>

NoAgain == [twice |-> Dec(0, 0), negated |-> Dec(0, 0)]
QIdle == /\ qx = Dec(0, 0) /\ qres = Dec(0, 0) /\ qstep = 0 /\ qagain = NoAgain

Init ==
  /\ variant \in Variants
  /\ scale \in Scales
  /\ counts = NoCounts
  /\ stage = "start"
  /\ phase = "-"
  /\ rows = <<>>
  /\ base_date = 0
  /\ sample = <<>>
  /\ df = NoTables
  /\ files = {}
  /\ outdir = FALSE
  /\ started = <<>>
  /\ npA \in 0..(StreamMod - 1)
  /\ npB \in 0..(StreamMod - 1)
  /\ npPos = 0
  /\ fkPos = 0
  /\ pySeed \in PySeeds(variant)
  /\ pyPos = 0
  /\ clock = ClockStart
  /\ clockStep \in ClockSteps
  /\ tz \in TzOffsets
  /\ run = 1
  /\ out1 = NoTables
  /\ clean = NoClean
  /\ QIdle

Next ==
  \/ UsageError
  \/ MainStart
  \/ \E e \in EntitySet : Call(e)
  \/ generate_orgs
  \/ generate_users
  \/ generate_products
  \/ generate_orders
  \/ generate_payments
  \/ generate_events
  \/ \E e \in EntitySet : Return(e)
  \/ \E e \in EntitySet : Raise(e)
  \/ \E e \in EntitySet : Write(e)
  \/ Rerun

Spec == Init /\ [][Next]_vars

\* ------------------------------------------------- quantize on its own
\* inputs: Decimals, and floats (a float that is not an integer may differ
\* from the decimal fraction c * 10^e by an infinitesimal)
QExps == {0 - 4, 0 - 3, 0 - 2, 0 - 1, 0}
QInputs ==
  {Num(c, e, 0, ty) : c \in (0 - MaxCoef)..MaxCoef, e \in QExps,
                      ty \in {"Decimal", "float"}}
  \cup {Num(c, e, eps, "float") :
          c \in (0 - MaxCoef)..MaxCoef, e \in QExps \ {0}, eps \in {0 - 1, 1}}

InitQ ==
  /\ variant = "root"
  /\ scale = "xs"
  /\ counts = NoCounts
  /\ stage = "quantize"
  /\ phase = "-"
  /\ rows = <<>>
  /\ base_date = 0
  /\ sample = <<>>
  /\ df = NoTables
  /\ files = {}
  /\ outdir = FALSE
  /\ started = <<>>
  /\ npA = 0
  /\ npB = 0
  /\ npPos = 0
  /\ fkPos = 0
  /\ pySeed = 0
  /\ pyPos = 0
  /\ clock = ClockStart
  /\ clockStep = 0
  /\ tz = 0
  /\ run = 1
  /\ out1 = NoTables
  /\ qx \in QInputs
  /\ qres = Dec(0, 0)
  /\ qstep = 0
  /\ qagain = NoAgain
  /\ clean = NoClean

\* quantize(qx) is called
QuantizeCall ==
  /\ stage = "quantize"
  /\ qstep = 0
  /\ qres' = quantize(qx)
  /\ qstep' = 1
  /\ UNCHANGED <<variant, scale, counts, stage, phase, rows, base_date, sample,
                 df, files, outdir, started, npA, npB, npPos, fkPos,
                 pySeed, pyPos, clock, clockStep, tz, run, out1, qx, qagain,
                 clean>>

\* the result is quantized again, and so is its negation (price = -price)
QuantizeAgain ==
  /\ stage = "quantize"
  /\ qstep = 1
  /\ qagain' = [twice |-> quantize(qres), negated |-> quantize(Neg(qres))]
  /\ qstep' = 2
  /\ UNCHANGED <<variant, scale, counts, stage, phase, rows, base_date, sample,
                 df, files, outdir, started, npA, npB, npPos, fkPos,
                 pySeed, pyPos, clock, clockStep, tz, run, out1, qx, qres,
                 clean>>

NextQ == QuantizeCall \/ QuantizeAgain

SpecQ == InitQ /\ [][NextQ]_vars

\* ------------------------------------------- a generator called on its own
\* generate_<e>(n, ...) called directly: n may be any integer, an upstream
\* table may have no rows
CallCounts == (0 - 1)..MaxCount
EmptyTable == [len |-> 0, rows |-> <<>>]
\* one row of an upstream table handed to the generator
PoolRow(v, e) ==
  LET ts == IF v = "legacy" THEN Ts(ClockStart - 10 * Day)
            ELSE ToUtc(Ts(ClockStart - 10 * Day))
  IN  CASE e = "orgs" -> [idx |-> 0, org_id |-> 1]
        [] e = "users" -> [idx |-> 0, user_id |-> 2]
        [] e = "products" -> [idx |-> 0, product_id |-> 3]
        [] OTHER ->
             [idx |-> 0, order_id |-> 4, org_id |-> 1, user_id |-> 2,
              product_id |-> 3, quantity |-> 2,
              unit_price |-> IF v = "legacy" THEN Flt(1250, 0 - 2)
                             ELSE Dec(1250, 0 - 2),
              currency |-> "USD", status |-> "placed", order_ts |-> ts,
              updated_at |-> TsAdd(ts, Hour)]
PoolTable(v, e) == [len |-> 1, rows |-> <<PoolRow(v, e)>>]
\* an Order table of two rows
OrderTable2(v) ==
  [len |-> 2,
   rows |-> <<PoolRow(v, "orders"),
              [PoolRow(v, "orders") EXCEPT !.idx = 1, !.order_id = 5,
                                           !.quantity = 0]>>]

InitG ==
  /\ variant \in Variants
  /\ scale = "s"
  /\ stage \in EntitySet
  /\ phase = "call"
  /\ \E n \in CallCounts : counts = [NoCounts EXCEPT ![stage] = n]
  /\ \E empty \in SUBSET Upstream(stage), two \in BOOLEAN :
       df = [e \in EntitySet |->
               IF e \in empty THEN EmptyTable
               ELSE IF e = "orders" /\ stage = "payments" /\ two
                    THEN OrderTable2(variant)
               ELSE IF e \in Upstream(stage) THEN PoolTable(variant, e)
               ELSE NoTable]
  /\ rows = <<>>
  /\ base_date = 0
  /\ sample = <<>>
  /\ files = {}
  /\ outdir = FALSE
  /\ started = <<>>
  /\ npA \in 0..(StreamMod - 1)
  /\ npB = 0
  /\ npPos = 0
  /\ fkPos = 0
  /\ pySeed = 0
  /\ pyPos = 0
  /\ clock = ClockStart
  /\ clockStep = 1
  /\ tz = 0
  /\ run = 1
  /\ out1 = NoTables
  /\ clean = [NoClean EXCEPT
                !.ids = [e \in EntitySet |-> Column(df[e], IdCol(e))]]
  /\ QIdle

\* the exception leaves the generator: no DataFrame is returned
Raised ==
  /\ stage' = "failed"
  /\ UNCHANGED <<variant, scale, counts, phase, rows, base_date, sample, df,
                 files, outdir, npA, npB, npPos, fkPos, pySeed, pyPos,
                 clock, clockStep, tz, run, out1, qx, qres, qstep, qagain,
                 clean>>

\* order_df.sample(n=min(n, len(order_df))) with a negative n: ValueError
SampleRaises(e) ==
  /\ stage = e
  /\ phase = "call"
  /\ SampleOfNegative(e)
  /\ started' = Append(started, e)
  /\ Raised

\* np.random.choice over an empty id column in the first iteration: ValueError
ChoiceRaises(e) ==
  /\ stage = e
  /\ phase = "loop"
  /\ Len(rows) < Tracked(LoopCount(e))
  /\ ChoiceOfEmpty(e)
  /\ UNCHANGED started
  /\ Raised

\* coerce_datetime on the column-less frame of an empty row list: KeyError
CoerceRaises(e) ==
  /\ stage = e
  /\ phase = "loop"
  /\ Len(rows) = Tracked(LoopCount(e))
  /\ CoerceKeyError(variant, e, rows)
  /\ UNCHANGED started
  /\ Raised

NextG ==
  \/ \E e \in EntitySet : Call(e)
  \/ generate_orgs
  \/ generate_users
  \/ generate_products
  \/ generate_orders
  \/ generate_payments
  \/ generate_events
  \/ \E e \in EntitySet : Return(e)
  \/ \E e \in EntitySet : SampleRaises(e)
  \/ \E e \in EntitySet : ChoiceRaises(e)
  \/ \E e \in EntitySet : CoerceRaises(e)

SpecG == InitG /\ [][NextG]_vars

\* ================================================================== claims
Generated(e) == df[e] # NoTable
Ids(e, col) == Range(Column(df[e], col))
RowsOf(e) == IF Generated(e) THEN Range(df[e].rows) ELSE {}
\* the Order row a Payment row was sampled from
OrderOf(p) == CHOOSE o \in RowsOf("orders") : o.order_id = p.order_id
RunOver == stage = "done"

\* C1: two runs of the script with the same seed and the same scale preset
\* write identical content into all six tables.
C1_Determinism ==
  (run = 2 /\ RunOver) => (files = EntitySet /\ df = out1)

\* C2: the generators are invoked strictly in the order Org, User, Product,
\* Order, Payment, Event; a generator only runs once every table it reads ids
\* from has been returned, and Event generation starts after Payment returned.
C2_DependencyOrder ==
  /\ Len(started) <= Len(Entities)
  /\ \A k \in 1..Len(started) : started[k] = Entities[k]
  /\ \A k \in 1..Len(started) :
       /\ \A u \in Upstream(started[k]) : Generated(u)
       /\ \A j \in 1..(k - 1) : Generated(started[j])
  /\ \A e \in EntitySet :
       Generated(e) => \E k \in 1..Len(started) : started[k] = e
C2_Witness ==
  /\ stage = "events"
  /\ phase = "loop"
  /\ Len(rows) > 0
  /\ Generated("payments")

\* C3: every foreign key of every returned row is an id of a returned row of
\* the table it refers to.
C3_ReferentialIntegrity ==
  /\ \A u \in RowsOf("users") : u.org_id \in Ids("orgs", "org_id")
  /\ \A o \in RowsOf("orders") :
       /\ o.org_id \in Ids("orgs", "org_id")
       /\ o.user_id \in Ids("users", "user_id")
       /\ o.product_id \in Ids("products", "product_id")
  /\ \A p \in RowsOf("payments") : p.order_id \in Ids("orders", "order_id")
  /\ \A ev \in RowsOf("events") :
       /\ ev.org_id \in Ids("orgs", "org_id")
       /\ ev.user_id \in Ids("users", "user_id")
C3_Witness ==
  /\ RunOver
  /\ \A e \in EntitySet : Len(df[e].rows) > 0
  /\ \E u1 \in RowsOf("users"), u2 \in RowsOf("users") : u1.org_id # u2.org_id

\* C4: paid_ts >= order_ts of the sampled order, received_ts >= event_ts and
\* an order's updated_at >= its order_ts.
C4_CausalTimestamps ==
  /\ \A p \in RowsOf("payments") :
       /\ p.paid_ts.t >= OrderOf(p).order_ts.t
       /\ p.paid_ts.tz = OrderOf(p).order_ts.tz
  /\ \A ev \in RowsOf("events") :
       /\ ev.received_ts.t >= ev.event_ts.t
       /\ ev.received_ts.tz = ev.event_ts.tz
  /\ \A o \in RowsOf("orders") :
       /\ o.updated_at.t >= o.order_ts.t
       /\ o.updated_at.tz = o.order_ts.tz
C4_Witness ==
  /\ \E p \in RowsOf("payments") : p.paid_ts.t > OrderOf(p).order_ts.t
  /\ \E ev \in RowsOf("events") : ev.received_ts.t > ev.event_ts.t

\* C5: every Org row returned by generate_orgs has updated_at >= created_at.
C5_OrgUpdatedAfterCreated ==
  \A o \in RowsOf("orgs") : o.updated_at.t >= o.created_at.t

C7_RefundAtMostAmount ==
  \A p \in RowsOf("payments") : NumLe(p.refund_amount, p.amount)

\* C8: a complete run emits exactly the preset's number of Org, Product,
\* Order, Event and Payment rows (xs: 20, 10, 500, 1000, 200).
C8_RowCounts ==
  RunOver =>
    /\ \A e \in {"orgs", "products", "orders", "events", "payments"} :
         /\ df[e].len = SCALE_PRESETS[variant][scale][e]
         /\ e \in files
         /\ Len(df[e].rows) = Min(df[e].len, MaxRows)
    /\ scale = "xs" =>
         /\ df["orgs"].len = 20
         /\ df["products"].len = 10
         /\ df["orders"].len = 500
         /\ df["events"].len = 1000
         /\ df["payments"].len = 200
C8_Witness ==
  /\ RunOver
  /\ scale = "xs"
  /\ df["payments"].len = 200
  /\ df["events"].len = 1000
  /\ files = EntitySet

\* C9: generate_users returns its n generated rows unchanged and in order,
\* followed by about 0.5% of n extra rows, each an exact copy of one of them.
\* (The root and legacy scripts, the ones the claim is drawn from.)
SameUser(a, b) ==
  /\ \A f \in {"user_id", "org_id", "email", "full_name"} : a[f] = b[f]
  /\ a.created_at.t = b.created_at.t
  /\ a.updated_at.t = b.updated_at.t
C10_QuantizeNearest ==
  qstep = 1 =>
    LET k == Max(3, 0 - qx.e)
        u == Units(qx, k)
        ru == Units(qres, k)
        d == ru - u
    IN  /\ qres.e = 0 - 2
        /\ qres.eps = 0
        /\ qres.ty = "Decimal"
        /\ 2 * Abs(d) <= Pow10(k - 2)
        /\ 2 * Abs(d) = Pow10(k - 2) =>
             IF qx.eps = 0 THEN Abs(ru) > Abs(u) ELSE Sign(d) = qx.eps
C10_Witness ==
  /\ qstep = 1
  /\ qx = Dec(0 - 125, 0 - 3)
  /\ qres = Dec(0 - 13, 0 - 2)

\* C11: quantize(quantize(x)) = quantize(x) for every x, and the negation of
\* a quantized value is a value quantize leaves unchanged; both keep exactly
\* 2 fractional digits.
C11_QuantizeIdempotent ==
  qstep = 2 =>
    /\ qagain.twice = qres
    /\ qagain.negated = Neg(qres)
    /\ qagain.twice.e = 0 - 2
    /\ qagain.negated.e = 0 - 2
C11_Witness ==
  /\ qstep = 2
  /\ qx = Num(0 - 115, 0 - 3, 1, "float")
  /\ qres = Dec(0 - 11, 0 - 2)
  /\ qagain.twice = Dec(0 - 11, 0 - 2)
  /\ qagain.negated = Dec(11, 0 - 2)

\* C12: in every variant, unit_price of every Order row and amount,
\* fee_amount, tax_amount and refund_amount of every Payment row are outputs of
\* quantize: Decimals with exactly 2 fractional digits that quantize leaves
\* unchanged, never raw floating-point values.
IsQuantized(x) ==
  /\ x.ty = "Decimal"
  /\ x.e = 0 - 2
  /\ x.eps = 0
  /\ quantize(x) = x
C12_MonetaryQuantized ==
  /\ \A o \in RowsOf("orders") : IsQuantized(o.unit_price)
  /\ \A p \in RowsOf("payments") :
       \A f \in {"amount", "fee_amount", "tax_amount", "refund_amount"} :
         IsQuantized(p[f])

\* C13: when generation of an entity fails the run ends there, with no file
\* written for that entity nor for a later one; the files written are the
\* complete tables of the entities generated before it, and a file is only
\* ever written from a table its generator has returned.
CompleteLen(e) ==
  LoopCount(e)
    + (IF e = "users" /\ variant # "load" THEN SampleSize(counts[e]) ELSE 0)
C13_NoPartialTable ==
  /\ \A f \in files : Generated(f) /\ df[f].len = CompleteLen(f)
  /\ stage = "failed" =>
       LET k == Len(started)
       IN  /\ k >= 1
           /\ ~Generated(started[k])
           /\ files = {started[j] : j \in 1..(k - 1)}
           /\ \A j \in k..Len(Entities) : Entities[j] \notin files
           /\ ~ENABLED Next
C13_Witness ==
  /\ stage = "failed"
  /\ started = <<"orgs", "users", "products", "orders", "payments">>
  /\ Len(rows) > 0
  /\ files = {"orgs", "users", "products", "orders"}

\* C16: a --scale that names no preset is rejected before any entity is
\* generated, before the output directory is created and before any file is
\* written.
C16_UnknownScale ==
  scale \notin DOMAIN SCALE_PRESETS[variant] =>
    /\ stage \in {"start", "usage"}
    /\ ~outdir
    /\ files = {}
    /\ started = <<>>
    /\ counts = NoCounts
    /\ \A e \in EntitySet : ~Generated(e)
    /\ stage = "usage" => ~ENABLED Next
C16_Witness ==
  /\ stage = "usage"
  /\ variant = "legacy"
  /\ scale = "xs"

\* the generator that was called on its own
Called == IF started # <<>> THEN started[1] ELSE stage

\* C14: generate_users, generate_orders, generate_payments and
\* generate_events, in each variant, called with a positive count and an
\* upstream table without rows, fail and return no table.
C14_EmptyPool ==
  LET e == Called
  IN  (/\ e \in {"users", "orders", "payments", "events"}
       /\ counts[e] > 0
       /\ \E u \in Upstream(e) : df[u].len = 0)
      => ~Generated(e)

\* C15: every generator, in each variant, called with a negative count fails
\* instead of returning a table.
C15_NegativeCount ==
  LET e == Called
  IN  (e \in EntitySet /\ counts[e] < 0) => ~Generated(e)

\* C17: the run and the same run with every anomaly probability 0 agree on
\* every field of every row that no anomaly mutated: a firing anomaly (null
\* email, new_key, leaked_email, negated price, zeroed quantity) changes no
\* value drawn for another field or for a later row.
Running == IF started = <<>> THEN "orgs" ELSE started[Len(started)]
Mutated(e, row, f) ==
  \/ e = "users" /\ f = "email" /\ row.email = 0
  \/ e = "orders" /\ f = "unit_price" /\ row.unit_price.c < 0
  \/ e = "orders" /\ f = "quantity" /\ row.quantity = 0
CleanPart(e, row, f) ==
  IF e = "events" /\ f = "properties"
  THEN [page |-> row[f].page, cart_value |-> row[f].cart_value]
  ELSE row[f]
C17_AnomalyIsolation ==
  /\ Len(clean.rows) = Len(rows)
  /\ \A k \in 1..Len(rows) :
       \A f \in DOMAIN rows[k] :
         ~Mutated(Running, rows[k], f) =>
           CleanPart(Running, rows[k], f) = CleanPart(Running, clean.rows[k], f)

\* C18: for every entity and preset, the rows generated and not yet handed to
\* the writer never number more than BATCH_SIZE.
C18_BoundedBatches ==
  \A e \in EntitySet :
    (Generated(e) /\ e \notin files) => df[e].len <= BATCH_SIZE

\* C19: building an Order row draws exactly one trial for the negative price
\* and one for the zero quantity, building an Event row one for schema drift
\* and one for leakage, each whether or not the other fired and each deciding
\* its own mutation only; so one row can carry both mutations.
C19_IndependentTrials ==
  [][/\ generate_orders =>
          LET r == rows'[Len(rows')]
              zero == RandLt(NpRaw(npPos + 3), 5, 1000)
          IN  /\ npPos' = npPos + 11
              /\ r.unit_price.c < 0 <=> RandLt(NpRaw(npPos + 2), 2, 1000)
              /\ zero => r.quantity = 0
              /\ ~zero => r.quantity = Max(0, ExponentialInt(NpRaw(npPos)))
     /\ generate_events =>
          LET r == rows'[Len(rows')]
          IN  /\ npPos' = npPos + 9
              /\ r.properties.new_key # 0
                   <=> RandLt(NpRaw(npPos + 2), 5, 100)
              /\ r.properties.leaked_email # 0
                   <=> RandLt(NpRaw(npPos + 3), 2, 100)]_vars
C19_Witness ==
  /\ \E o \in RowsOf("orders") : o.unit_price.c < 0 /\ o.quantity = 0
  /\ \E ev \in RowsOf("events") :
       ev.properties.new_key # 0 /\ ev.properties.leaked_email # 0

\* C20: once a generator has returned, no later step of the run changes the
\* ids of its table nor their order (org_id, user_id, product_id, order_id),
\* and the Order table handed to generate_payments is left as it was.
C20_PoolsWriteOnce ==
  [][run' = run =>
       /\ \A e \in {"orgs", "users", "products", "orders"} :
            Generated(e) =>
              /\ df'[e].len = df[e].len
              /\ Column(df'[e], IdCol(e)) = Column(df[e], IdCol(e))
       /\ Generated("orders") => df'["orders"] = df["orders"]]_vars
C20_Witness ==
  /\ stage = "events"
  /\ phase = "write"
  /\ Generated("payments")
  /\ Len(df["orders"].rows) >= 2
  /\ Len(df["payments"].rows) >= 2

\* C21: generate_payments(n, order_df) returns exactly min(n, len(order_df))
\* rows, each of an order of order_df; asked for more payments than there are
\* orders it returns as many rows as there are orders, although the orders
\* are drawn with replacement.
C21_PaymentCountCapped ==
  (Called = "payments" /\ Generated("payments")) =>
    LET t == df["payments"]
        n == counts["payments"]
        orders == df["orders"].len
    IN  /\ t.len = (IF n < orders THEN n ELSE orders)
        /\ t.len >= 0
        /\ n > orders => t.len = orders
        /\ Len(t.rows) = (IF t.len < MaxRows THEN t.len ELSE MaxRows)
        /\ \A p \in Range(t.rows) : p.order_id \in Ids("orders", "order_id")
C21_Witness ==
  /\ Called = "payments"
  /\ Generated("payments")
  /\ counts["payments"] > df["orders"].len
  /\ df["orders"].len = 2
  /\ df["payments"].len = 2
  /\ \A p \in Range(df["payments"].rows) : p.order_id = 4
  /\ \E o \in RowsOf("orders") :
       \A p \in Range(df["payments"].rows) : p.order_id # o.order_id
====
